---- MODULE Spec2Model ----
(***************************************************************************)
(* Model of the AppButler component: the bootstrap of the token collection, *)
(* the token refresh scheduler with its refresh tasks, and the transaction *)
(* observer.                                                               *)
(*                                                                         *)
(* The redux store is the state: wallet (state.wallet.wallet),             *)
(* tokenInitialized and tokens (state.token), transactions                 *)
(* (state.transaction.transactions).  The connector's registered observer, *)
(* the component's mount status, the pending run of the token effect and   *)
(* the refresh tasks in flight are the rest of the state.                  *)
(*                                                                         *)
(* Spec is the component as a whole.  SpecChain runs the contract refresh  *)
(* against a chain with more answers, SpecLive is the component with the   *)
(* scheduling of effects and reads made explicit, SpecParams is            *)
(* zilParamsToMap on its own and SpecPreference the preference reducer     *)
(* with its localStorage item.                                             *)
(***************************************************************************)
EXTENDS Integers, Sequences, FiniteSets, Bags, TLC

VARIABLES
    mounted,          \* the component is mounted (module-level `mounted`)
    observer,         \* ZilswapConnector's registered observer: TRUE = the butler's callback, FALSE = null
    wallet,           \* walletState.wallet (NoWallet when none)
    tokenInitialized, \* tokenState.initialized
    tokens,           \* tokenState.tokens: key -> TokenInfo
    tokensChanged,    \* tokenState.tokens changed since the token effect last ran
    transactions,     \* state.transaction.transactions
    tasks,            \* bag of refresh tasks suspended at an await
    initCount,        \* Token.init dispatches so far
    failedSince,      \* addresses whose refresh failed and that no Token.invalidate marked since
    refreshed,        \* per address, the last completed contract refresh: what it read, what it left
    preference,       \* the preference reducer's state
    localStorage,     \* localStorage's item under LOCAL_STORAGE_KEY_THEME (Undefined when none)
    last              \* the step just taken, with what it acted on

vars == <<mounted, observer, wallet, tokenInitialized, tokens, tokensChanged,
          transactions, tasks, initCount, failedSince, refreshed, preference, localStorage, last>>

\* the preference store, which the butler leaves alone
prefVars == <<preference, localStorage>>

----------------------------------------------------------------------------
(* Bounds of the model *)

\* an event is delivered only while the tasks in flight, and those the event can bring,
\* stay within this number
MaxInFlight == 3

(* Program constants *)

ZilDecimals == 12
ZilListPriority == 0

----------------------------------------------------------------------------
(* Values *)

Undefined == "undefined"
NoKey == "nokey"
ZIL_HASH == "0x0000000000000000000000000000000000000000"
ZilKey == "zil"

\* addresses of wallets and token owners are sequences of characters
LowerChar(c) ==
    CASE c = "A" -> "a"
      [] c = "B" -> "b"
      [] OTHER -> c

ToLowerCase(s) == [i \in DOMAIN s |-> LowerChar(s[i])]

WalletAddrs == { <<"x","A">> }
Balances == { 0, 500 }
PrivateKeys == { NoKey, "pk" }
Network == "TestNet"

Wallets ==
    [ byte20 : WalletAddrs, balance : Balances, privateKey : PrivateKeys, network : {Network} ]

\* walletState.wallet when no wallet is connected
NoWallet == [ byte20 |-> << >>, balance |-> 0, privateKey |-> NoKey, network |-> "none" ]

\* the connector's known tokens: descriptors with pairwise distinct addresses
TokenAddrs == { "t1", "t2" }
Descriptors == [ address : TokenAddrs, decimals : {6}, symbol : {"TKA"} ]

KnownTokenLists ==
    { L \in UNION { [1..n -> Descriptors] : n \in 0..Cardinality(TokenAddrs) } :
        \A i, j \in 1..Len(L) : i < j => L[i].address # L[j].address }

Hashes == { "H", "H2" }
\* the (status, receipt) pairs of the events
Outcomes == { <<"pending", Undefined>>, <<"confirmed", "receipt">> }

\* new BN(text): the number a decimal text of the chain names; new BN(undefined) is 0
BN(text) ==
    CASE text = "0" -> 0
      [] text = "7" -> 7
      [] text = "07" -> 7
      [] text = "12" -> 12
      [] text = Undefined -> 0

EmptyMap == [ x \in {} |-> Undefined ]

Put(m, k, v) == [ x \in (DOMAIN m) \cup {k} |-> IF x = k THEN v ELSE m[x] ]

Get(m, k) == IF k \in DOMAIN m THEN m[k] ELSE Undefined

----------------------------------------------------------------------------
(* TokenInfo records: a record holds the fields that were assigned to it *)

\* mutant of mapZilswapToken: the token starts as initialized
mapZilswapTokenInitialized(zilswapToken) ==
    [ initialized |-> TRUE,
      isZil |-> FALSE,
      dirty |-> FALSE,
      address |-> zilswapToken.address,
      decimals |-> zilswapToken.decimals,
      symbol |-> zilswapToken.symbol,
      name |-> "",
      balance |-> 0,
      init_supply |-> 0,
      balances |-> EmptyMap ]

mapZilswapToken(zilswapToken) ==
    [ initialized |-> FALSE,
      isZil |-> FALSE,
      dirty |-> FALSE,
      address |-> zilswapToken.address,
      decimals |-> zilswapToken.decimals,
      symbol |-> zilswapToken.symbol,
      name |-> "",
      balance |-> 0,
      init_supply |-> 0,
      balances |-> EmptyMap ]

\* mutant of ParamsLoop: a name that is already in the output keeps its first value
RECURSIVE ParamsLoopFirstWins(_, _)
ParamsLoopFirstWins(params, output) ==
    IF params = << >> THEN output
    ELSE ParamsLoopFirstWins(Tail(params),
                             IF Head(params).vname \in DOMAIN output THEN output
                             ELSE Put(output, Head(params).vname, Head(params).value))

RECURSIVE ParamsLoop(_, _)
ParamsLoop(params, output) ==
    IF params = << >> THEN output
    ELSE ParamsLoop(Tail(params), Put(output, Head(params).vname, Head(params).value))

zilParamsToMap(params) == ParamsLoop(params, EmptyMap)

----------------------------------------------------------------------------
(* The store's reducers *)

\* { ...old, ...patch }
Merge(old, patch) ==
    [ f \in (DOMAIN old) \cup (DOMAIN patch) |-> IF f \in DOMAIN patch THEN patch[f] ELSE old[f] ]

\* Token.update(patch): the patch is merged into the record stored under patch.address
TokenUpdate(toks, patch) ==
    [ k \in (DOMAIN toks) \cup {patch.address} |->
        IF k = patch.address
        THEN Merge(IF k \in DOMAIN toks THEN toks[k] ELSE EmptyMap, patch)
        ELSE toks[k] ]

\* Token.invalidate(): every token is marked dirty
TokenInvalidate(toks) == [ k \in DOMAIN toks |-> Merge(toks[k], [ dirty |-> TRUE ]) ]

\* Transaction.update(patch): the record with the patch's hash is updated, or created
RECURSIVE TransactionUpdate(_, _)
TransactionUpdate(txs, patch) ==
    IF txs = << >> THEN << patch >>
    ELSE IF Head(txs).hash = patch.hash
         THEN << Merge(Head(txs), patch) >> \o Tail(txs)
         ELSE << Head(txs) >> \o TransactionUpdate(Tail(txs), patch)

\* Token.init({ tokens }): the collection is replaced and marked initialized
TokenInit(payloadTokens) == [ initialized |-> TRUE, tokens |-> payloadTokens ]

\* Wallet.update({ wallet, pk }): the wallet object is replaced
WalletUpdate(payloadWallet) == payloadWallet

----------------------------------------------------------------------------
(* The chain's answers, as the connector hands them over *)

Param(vname, type, value) == [ vname |-> vname, type |-> type, value |-> value ]

\* contract.getInit(): an ordered sequence of { vname, type, value }
ChainInits ==
    { << Param("init_supply", "Uint128", "12"), Param("symbol", "String", "TKA"),
         Param("name", "String", "Token A") >> }

\* getBalancesMap(contract): owner address -> decimal text
ChainTables ==
    { [ a \in { <<"x","a">>, <<"x","b">> } |-> IF a = <<"x","b">> THEN "12" ELSE "07" ] }

\* ZilswapConnector.getPool(address) || undefined
ChainPools == { "pool" }

----------------------------------------------------------------------------
(* The pieces of the component *)

\* mutant of TxRecorded: the hash is compared with the records' status
TxRecordedByStatus(txs, hash) == \E i \in DOMAIN txs : txs[i].status = hash

\* the observer's test: the store's transactions hold the event's hash
TxRecorded(txs, hash) == \E i \in DOMAIN txs : txs[i].hash = hash

\* mutant of InitEffectRuns: the test of tokenState.initialized is missing
InitEffectRunsUnguarded(initialized, w) == w # NoWallet

\* the init effect's early returns
InitEffectRuns(initialized, w) == ~initialized /\ w # NoWallet

\* mutant of ZilToken: the pseudo-token starts uninitialized, like the contract tokens
ZilTokenUninitialized(w) ==
    [ isZil |-> TRUE,
      dirty |-> FALSE,
      initialized |-> FALSE,
      listPriority |-> ZilListPriority,
      address |-> ZIL_HASH,
      decimals |-> ZilDecimals,
      balance |-> w.balance,
      init_supply |-> 0,
      name |-> "Zilliqa",
      symbol |-> "ZIL",
      balances |-> Put(EmptyMap, ToLowerCase(w.byte20), w.balance) ]

\* the ZIL pseudo-token of the init effect
ZilToken(w) ==
    [ isZil |-> TRUE,
      dirty |-> FALSE,
      initialized |-> TRUE,
      listPriority |-> ZilListPriority,
      address |-> ZIL_HASH,
      decimals |-> ZilDecimals,
      balance |-> w.balance,
      init_supply |-> 0,
      name |-> "Zilliqa",
      symbol |-> "ZIL",
      balances |-> Put(EmptyMap, ToLowerCase(w.byte20), w.balance) ]

\* zilswapTokens.map(mapZilswapToken).forEach(token => tokens[token.address] = token)
RECURSIVE ForEachToken(_, _)
ForEachToken(zilswapTokens, toks) ==
    IF zilswapTokens = << >> THEN toks
    ELSE ForEachToken(Tail(zilswapTokens),
                      Put(toks, mapZilswapToken(Head(zilswapTokens)).address,
                          mapZilswapToken(Head(zilswapTokens))))

\* the tokens object the init effect builds
InitTokens(zilswapTokens, w) == Put(ForEachToken(zilswapTokens, EmptyMap), ZilKey, ZilToken(w))

\* mutant of NeedsRefresh: the dirty flag is not looked at
NeedsRefreshUninitialized(token) == ~token.initialized

\* mutant of NeedsRefresh: no token is skipped
NeedsRefreshAlways(token) == TRUE

\* the token effect's test: a token that is initialized and not dirty is skipped
NeedsRefresh(token) == ~(token.initialized /\ ~token.dirty)

\* mutant of FlipPatch: the update is addressed by the token's address field, not by its key
FlipPatchByTokenAddress(address, token) ==
    [ address |-> token.address, loading |-> TRUE, dirty |-> FALSE, initialized |-> TRUE ]

\* mutant of FlipPatch: initialized is not set
FlipPatchUninitialized(address, token) ==
    [ address |-> address, loading |-> TRUE, dirty |-> FALSE ]

\* the update the token effect dispatches before it runs the query
FlipPatch(address, token) ==
    [ address |-> address, loading |-> TRUE, dirty |-> FALSE, initialized |-> TRUE ]

\* mutant of ZilResultAddress: the result is stored under the token's address field
ZilResultAddressOfToken(address, token) == token.address

\* the key under which the ZIL refresh stores its result
ZilResultAddress(address, token) == address

\* mutant of ZilResultPatch: the balance mapping is keyed by the address as the wallet spells it
ZilResultPatchRawKey(address, token, w) ==
    [ address |-> ZilResultAddress(address, token),
      loading |-> FALSE,
      balance |-> w.balance,
      balances |-> Put(EmptyMap, w.byte20, w.balance) ]

\* the update the ZIL refresh dispatches
ZilResultPatch(address, token, w) ==
    [ address |-> ZilResultAddress(address, token),
      loading |-> FALSE,
      balance |-> w.balance,
      balances |-> Put(EmptyMap, ToLowerCase(w.byte20), w.balance) ]

\* balances[address] = new BN(contractBalanceState[address])
BalancesOf(contractBalanceState) ==
    [ a \in DOMAIN contractBalanceState |-> BN(contractBalanceState[a]) ]

\* balances[wallet.addressInfo.byte20.toLowerCase()] || new BN(0)
OwnBalance(balances, w) ==
    IF ToLowerCase(w.byte20) \in DOMAIN balances THEN balances[ToLowerCase(w.byte20)] ELSE 0

\* mutant of ContractResultPatch: the decimals are counted up from the record's decimals
ContractResultPatchCounting(token, contractInit, contractBalanceState, pool, w) ==
    [ initialized |-> TRUE,
      dirty |-> FALSE,
      loading |-> FALSE,
      isZil |-> FALSE,
      address |-> token.address,
      decimals |-> token.decimals + 1,
      init_supply |-> BN(Get(contractInit, "init_supply")),
      symbol |-> Get(contractInit, "symbol"),
      name |-> Get(contractInit, "name"),
      pool |-> pool,
      balances |-> BalancesOf(contractBalanceState),
      balance |-> OwnBalance(BalancesOf(contractBalanceState), w) ]

\* the tokenInfo the contract refresh dispatches
ContractResultPatch(token, contractInit, contractBalanceState, pool, w) ==
    [ initialized |-> TRUE,
      dirty |-> FALSE,
      loading |-> FALSE,
      isZil |-> FALSE,
      address |-> token.address,
      decimals |-> token.decimals,
      init_supply |-> BN(Get(contractInit, "init_supply")),
      symbol |-> Get(contractInit, "symbol"),
      name |-> Get(contractInit, "name"),
      pool |-> pool,
      balances |-> BalancesOf(contractBalanceState),
      balance |-> OwnBalance(BalancesOf(contractBalanceState), w) ]

\* what the task boundary does with a task that failed
FailurePatch(address) == [ address |-> address, loading |-> FALSE ]

\* a refresh task suspended at an await, with what its closure captured
Task(address, token, w, pc, contractInit) ==
    [ address |-> address,
      token |-> [ isZil |-> token.isZil, address |-> token.address, decimals |-> token.decimals ],
      wallet |-> w,
      pc |-> pc,
      contractInit |-> contractInit ]

\* the task runQueryToken starts for a token, run up to its first await:
\* no task stays behind when the ZIL refresh finds no private key
StartedTasks(address, token, w) ==
    IF token.isZil
    THEN IF w.privateKey = NoKey
         THEN {}
         ELSE { Task(address, token, w, "connect", EmptyMap) }
    ELSE { Task(address, token, w, "getInit", EmptyMap) }

\* the addresses the token effect refreshes in one run
StaleKeys(toks) == { k \in DOMAIN toks : NeedsRefresh(toks[k]) }

RECURSIVE DispatchFlips(_, _)
DispatchFlips(toks, keys) ==
    IF keys = {} THEN toks
    ELSE LET k == CHOOSE x \in keys : TRUE
         IN DispatchFlips(TokenUpdate(toks, FlipPatch(k, toks[k])), keys \ {k})

RemoveTask(t) == tasks (-) SetToBag({t})

Keys == TokenAddrs \cup { ZilKey }

----------------------------------------------------------------------------
(* The preference store *)

LOCAL_STORAGE_KEY_THEME == "zilswap:theme"
VALID_THEMES == { "dark", "light" }

\* the types of the preference actions, and a type of another store's actions
TYPES == [ INIT |-> "PREFERENCE_INIT", UPDATE |-> "PREFERENCE_UPDATE" ]
ActionTypes == { TYPES.INIT, TYPES.UPDATE, "OTHER" }

\* payloads: without a theme, with an empty, a valid and an unknown theme
Payloads ==
    { EmptyMap } \cup { [ theme |-> t ] : t \in { "", "dark", "light", "blue" } }

\* what localStorage may hold under the key when the module is loaded
SavedThemes == { Undefined, "dark", "light", "blue" }

\* savedThemePreference || (prefersDarkMode ? "dark" : "light")
initialTheme(savedThemePreference, prefersDarkMode) ==
    IF savedThemePreference \notin { Undefined, "" } THEN savedThemePreference
    ELSE IF prefersDarkMode THEN "dark" ELSE "light"

initial_state(savedThemePreference, prefersDarkMode) ==
    [ theme |-> IF initialTheme(savedThemePreference, prefersDarkMode) \in VALID_THEMES
                THEN initialTheme(savedThemePreference, prefersDarkMode)
                ELSE "light" ]

\* mutant of checkToSaveThemePreference: the theme is not looked up in VALID_THEMES
checkToSaveAnyTheme(currentTheme, updatePayload) ==
    LET theme == Get(updatePayload, "theme")
    IN IF theme \in { Undefined, "" } THEN << >>
       ELSE IF theme # currentTheme THEN << theme >>
       ELSE << >>

\* the values checkToSaveThemePreference hands to localStorage.setItem under the key
checkToSaveThemePreference(currentTheme, updatePayload) ==
    LET theme == Get(updatePayload, "theme")
    IN IF theme \in { Undefined, "" } THEN << >>
       ELSE IF theme # currentTheme /\ theme \in VALID_THEMES THEN << theme >>
       ELSE << >>

\* the values the reducer hands to localStorage.setItem while it handles the action
reducerWrites(state, actions) ==
    IF actions.type = TYPES.UPDATE
    THEN checkToSaveThemePreference(state.theme, actions.payload)
    ELSE << >>

\* the state the reducer returns
reducer(state, actions) ==
    CASE actions.type = TYPES.INIT -> Merge(state, actions.payload)
      [] actions.type = TYPES.UPDATE -> Merge(state, actions.payload)
      [] OTHER -> state

\* localStorage's item after the values were set one after the other
SetItems(item, values) == IF values = << >> THEN item ELSE values[Len(values)]

----------------------------------------------------------------------------
(* Initial state and steps *)

Init ==
    /\ mounted = FALSE
    /\ observer = FALSE
    /\ wallet = NoWallet
    /\ tokenInitialized = FALSE
    /\ tokens = EmptyMap
    /\ tokensChanged = FALSE
    /\ transactions = << >>
    /\ tasks = EmptyBag
    /\ initCount = 0
    /\ failedSince = {}
    /\ refreshed = EmptyMap
    /\ preference = initial_state(Undefined, FALSE)
    /\ localStorage = Undefined
    /\ last = [ op |-> "none", address |-> "" ]

\* the mount effect
Mount ==
    /\ ~mounted
    /\ mounted' = TRUE
    /\ observer' = TRUE
    /\ tokensChanged' = TRUE
    /\ last' = [ op |-> "mount", address |-> "" ]
    /\ UNCHANGED <<wallet, tokenInitialized, tokens, transactions, tasks,
                   initCount, failedSince, refreshed, prefVars>>

\* mutant of Unmount: the cleanup does not register null
UnmountKeepingObserver ==
    /\ mounted
    /\ mounted' = FALSE
    /\ observer' = observer
    /\ last' = [ op |-> "unmount", address |-> "" ]
    /\ UNCHANGED <<wallet, tokenInitialized, tokens, tokensChanged, transactions, tasks,
                   initCount, failedSince, refreshed, prefVars>>

\* the mount effect's cleanup
Unmount ==
    /\ mounted
    /\ mounted' = FALSE
    /\ observer' = FALSE
    /\ last' = [ op |-> "unmount", address |-> "" ]
    /\ UNCHANGED <<wallet, tokenInitialized, tokens, tokensChanged, transactions, tasks,
                   initCount, failedSince, refreshed, prefVars>>

\* the wallet subsystem connects one of the wallets ws
ConnectWalletOf(ws) ==
    /\ wallet = NoWallet
    /\ \E w \in ws : wallet' = WalletUpdate(w)
    /\ last' = [ op |-> "connect", address |-> "" ]
    /\ UNCHANGED <<mounted, observer, tokenInitialized, tokens, tokensChanged, transactions,
                   tasks, initCount, failedSince, refreshed, prefVars>>

ConnectWallet == ConnectWalletOf(Wallets)

\* the init effect, the connector knowing one of the token lists
BootstrapInitOf(lists) ==
    /\ mounted
    /\ InitEffectRuns(tokenInitialized, wallet)
    /\ \E zilswapTokens \in lists :
          /\ tokens' = TokenInit(InitTokens(zilswapTokens, wallet)).tokens
          /\ tokenInitialized' = TokenInit(InitTokens(zilswapTokens, wallet)).initialized
          /\ last' = [ op |-> "init", address |-> "", zilswapTokens |-> zilswapTokens ]
    /\ tokensChanged' = TRUE
    /\ initCount' = initCount + 1
    /\ UNCHANGED <<mounted, observer, wallet, transactions, tasks, failedSince,
                   refreshed, prefVars>>

BootstrapInit == BootstrapInitOf(KnownTokenLists)

\* the observer callback, on an event of the connector
ObserveTxOf(hashes, outcomes) ==
    /\ observer
    /\ BagCardinality(tasks) + Cardinality(DOMAIN tokens) <= MaxInFlight
    /\ \E hash \in hashes, outcome \in outcomes :
          LET txs == TransactionUpdate(transactions,
                        [ hash |-> hash, status |-> outcome[1], txReceipt |-> outcome[2] ])
          IN /\ transactions' = txs
             /\ IF TxRecorded(txs, hash)
                THEN /\ tokens' = TokenInvalidate(tokens)
                     /\ tokensChanged' = TRUE
                     /\ failedSince' = {}
                ELSE UNCHANGED <<tokens, tokensChanged, failedSince>>
             /\ last' = [ op |-> "event", address |-> hash,
                          status |-> outcome[1], txReceipt |-> outcome[2],
                          tracked |-> (\E i \in DOMAIN transactions :
                                          transactions[i].hash = hash) ]
    /\ UNCHANGED <<mounted, observer, wallet, tokenInitialized, tasks, initCount,
                   refreshed, prefVars>>

ObserveTx == ObserveTxOf(Hashes, Outcomes)

\* an event of the connector while no observer is registered: no callback is called
DropTx ==
    /\ ~observer
    /\ last' = [ op |-> "dropped", address |-> "" ]
    /\ UNCHANGED <<mounted, observer, wallet, tokenInitialized, tokens, tokensChanged,
                   transactions, tasks, initCount, failedSince, refreshed, prefVars>>

\* one run of the token effect over tokenState.tokens
SchedulerPass ==
    /\ mounted
    /\ tokensChanged
    /\ LET stale == StaleKeys(tokens)
       IN /\ tokens' = DispatchFlips(tokens, stale)
          /\ tasks' = tasks (+) SetToBag(UNION { StartedTasks(k, tokens[k], wallet) : k \in stale })
          /\ tokensChanged' = (stale # {})
          /\ last' = [ op |-> "pass", address |-> "", stale |-> stale,
                       started |-> [ k \in DOMAIN tokens |-> IF k \in stale THEN 1 ELSE 0 ] ]
    /\ UNCHANGED <<mounted, observer, wallet, tokenInitialized, transactions, initCount,
                   failedSince, refreshed, prefVars>>

\* connectWalletPrivateKey resolves: the ZIL refresh updates wallet and token
ZilRefreshDoneOf(balances) ==
    \E t \in DOMAIN tasks, b \in balances :
        /\ t.pc = "connect"
        /\ LET fresh == [ t.wallet EXCEPT !.balance = b ]
           IN /\ wallet' = WalletUpdate(fresh)
              /\ tokens' = TokenUpdate(tokens, ZilResultPatch(t.address, t.token, fresh))
              /\ last' = [ op |-> "zilDone", address |-> t.address, fresh |-> fresh ]
        /\ tokensChanged' = TRUE
        /\ tasks' = RemoveTask(t)
        /\ UNCHANGED <<mounted, observer, tokenInitialized, transactions, initCount,
                       failedSince, refreshed, prefVars>>

ZilRefreshDone == ZilRefreshDoneOf(Balances)

\* contract.getInit() resolves
GetInitDoneOf(inits) ==
    \E t \in DOMAIN tasks, params \in inits :
        /\ t.pc = "getInit"
        /\ tasks' = RemoveTask(t) (+)
                    SetToBag({ [ t EXCEPT !.pc = "getBalances",
                                          !.contractInit = zilParamsToMap(params) ] })
        /\ last' = [ op |-> "getInitDone", address |-> t.address ]
        /\ UNCHANGED <<mounted, observer, wallet, tokenInitialized, tokens, tokensChanged,
                       transactions, initCount, failedSince, refreshed, prefVars>>

GetInitDone == GetInitDoneOf(ChainInits)

\* getBalancesMap(contract) resolves: the contract refresh updates the token
ContractRefreshDoneOf(tables, pools) ==
    \E t \in DOMAIN tasks, table \in tables, pool \in pools :
        /\ t.pc = "getBalances"
        /\ LET tokenInfo == ContractResultPatch(t.token, t.contractInit, table, pool, t.wallet)
               read == [ contractInit |-> t.contractInit, table |-> table, pool |-> pool,
                         byte20 |-> t.wallet.byte20 ]
           IN /\ tokens' = TokenUpdate(tokens, tokenInfo)
              /\ refreshed' = Put(refreshed, t.address,
                                  [ read |-> read, tokenInfo |-> tokenInfo,
                                    record |-> TokenUpdate(tokens, tokenInfo)[tokenInfo.address] ])
              /\ last' = [ op |-> "contractDone", address |-> t.address,
                           read |-> read, tokenInfo |-> tokenInfo,
                           again |-> (t.address \in DOMAIN refreshed
                                        /\ refreshed[t.address].read = read) ]
        /\ tokensChanged' = TRUE
        /\ tasks' = RemoveTask(t)
        /\ UNCHANGED <<mounted, observer, wallet, tokenInitialized, transactions, initCount,
                       failedSince, prefVars>>

ContractRefreshDone == ContractRefreshDoneOf(ChainTables, ChainPools)

\* an on-chain read of a task fails: the task ends at the task boundary
TaskFailed ==
    \E t \in DOMAIN tasks :
        /\ tokens' = TokenUpdate(tokens, FailurePatch(t.address))
        /\ tokensChanged' = TRUE
        /\ tasks' = RemoveTask(t)
        /\ failedSince' = failedSince \cup { t.address }
        /\ last' = [ op |-> "failed", address |-> t.address ]
        /\ UNCHANGED <<mounted, observer, wallet, tokenInitialized, transactions, initCount,
                       refreshed, prefVars>>

Next ==
    \/ Mount
    \/ Unmount
    \/ ConnectWallet
    \/ BootstrapInit
    \/ ObserveTx
    \/ DropTx
    \/ SchedulerPass
    \/ ZilRefreshDone
    \/ GetInitDone
    \/ ContractRefreshDone
    \/ TaskFailed

Spec == Init /\ [][Next]_vars

----------------------------------------------------------------------------
(* The contract refresh against a chain that answers in more than one way:  *)
(* one contract token, a wallet without private key, one tracked hash.      *)

ChainWallets == { w \in Wallets : w.privateKey = NoKey /\ w.balance = 500 }

ChainTokenLists == { L \in KnownTokenLists : Len(L) = 1 /\ L[1].address = "t1" }

\* init parameters in another order, with a name given twice and without a name
WideChainInits ==
    ChainInits \cup
    { << Param("symbol", "String", "OLD"), Param("init_supply", "Uint128", "7"),
         Param("symbol", "String", "TKA") >> }

\* balance tables without the wallet's address, and with it in lower and in upper case
WideChainTables ==
    ChainTables \cup
    { EmptyMap,
      [ a \in { <<"x","A">> } |-> "12" ],
      [ a \in { <<"x","b">> } |-> "7" ] }

WideChainPools == ChainPools \cup { Undefined }

ChainConnectWallet == ConnectWalletOf(ChainWallets)

ChainBootstrapInit == BootstrapInitOf(ChainTokenLists)

ChainObserveTx == ObserveTxOf({ "H" }, { <<"confirmed", "receipt">> })

ChainGetInitDone == GetInitDoneOf(WideChainInits)

ChainContractRefreshDone == ContractRefreshDoneOf(WideChainTables, WideChainPools)

NextChain ==
    \/ Mount
    \/ ChainConnectWallet
    \/ ChainBootstrapInit
    \/ ChainObserveTx
    \/ SchedulerPass
    \/ ChainGetInitDone
    \/ ChainContractRefreshDone

SpecChain == Init /\ [][NextChain]_vars

----------------------------------------------------------------------------
(* zilParamsToMap on its own: every parameter sequence up to a length *)

MaxParams == 3

ParamSets == [ vname : { "symbol", "name" }, type : { "String", "Uint128" }, value : { "TKA", "7" } ]

ParamSeqs == UNION { [ 1..n -> ParamSets ] : n \in 0..MaxParams }

InitParams ==
    /\ mounted = FALSE
    /\ observer = FALSE
    /\ wallet = NoWallet
    /\ tokenInitialized = FALSE
    /\ tokens = EmptyMap
    /\ tokensChanged = FALSE
    /\ transactions = << >>
    /\ tasks = EmptyBag
    /\ initCount = 0
    /\ failedSince = {}
    /\ refreshed = EmptyMap
    /\ preference = initial_state(Undefined, FALSE)
    /\ localStorage = Undefined
    /\ \E params \in ParamSeqs : last = [ op |-> "params", address |-> "", params |-> params ]

\* one call of zilParamsToMap
DecodeParams ==
    /\ last.op = "params"
    /\ last' = [ op |-> "zilParamsToMap", address |-> "", params |-> last.params,
                 output |-> zilParamsToMap(last.params) ]
    /\ UNCHANGED <<mounted, observer, wallet, tokenInitialized, tokens, tokensChanged,
                   transactions, tasks, initCount, failedSince, refreshed, prefVars>>

NextParams == DecodeParams

SpecParams == InitParams /\ [][NextParams]_vars

----------------------------------------------------------------------------
(* The component that stays mounted, with a wallet that has a private key   *)
(* and a chain whose reads all succeed: effects that are due run, and a     *)
(* read that was started resolves.                                          *)

LiveWallets == { w \in Wallets : w.privateKey # NoKey }

LiveConnectWallet == ConnectWalletOf(LiveWallets)

LiveObserveTx == ObserveTxOf({ "H" }, { <<"confirmed", "receipt">> })

NextLive ==
    \/ Mount
    \/ LiveConnectWallet
    \/ BootstrapInit
    \/ LiveObserveTx
    \/ SchedulerPass
    \/ ZilRefreshDone
    \/ GetInitDone
    \/ ContractRefreshDone

SpecLive ==
    /\ Init
    /\ [][NextLive]_vars
    /\ WF_vars(SchedulerPass)
    /\ WF_vars(ZilRefreshDone)
    /\ WF_vars(GetInitDone)
    /\ WF_vars(ContractRefreshDone)

----------------------------------------------------------------------------
(* The preference reducer on its own *)

InitPreference ==
    /\ mounted = FALSE
    /\ observer = FALSE
    /\ wallet = NoWallet
    /\ tokenInitialized = FALSE
    /\ tokens = EmptyMap
    /\ tokensChanged = FALSE
    /\ transactions = << >>
    /\ tasks = EmptyBag
    /\ initCount = 0
    /\ failedSince = {}
    /\ refreshed = EmptyMap
    /\ localStorage \in SavedThemes
    /\ \E prefersDarkMode \in BOOLEAN : preference = initial_state(localStorage, prefersDarkMode)
    /\ last = [ op |-> "none", address |-> "" ]

\* the store hands an action to the preference reducer
PreferenceDispatch ==
    /\ \E type \in ActionTypes, payload \in Payloads :
          LET actions == [ type |-> type, payload |-> payload ]
          IN /\ preference' = reducer(preference, actions)
             /\ localStorage' = SetItems(localStorage, reducerWrites(preference, actions))
             /\ last' = [ op |-> "reducer", address |-> "", actions |-> actions,
                          state |-> preference, item |-> localStorage,
                          writes |-> reducerWrites(preference, actions) ]
    /\ UNCHANGED <<mounted, observer, wallet, tokenInitialized, tokens, tokensChanged,
                   transactions, tasks, initCount, failedSince, refreshed>>

NextPreference == PreferenceDispatch

SpecPreference == InitPreference /\ [][NextPreference]_vars

----------------------------------------------------------------------------
(* Properties *)

OutstandingIn(bag, address) ==
    LET RECURSIVE Sum(_)
        Sum(S) == IF S = {} THEN 0
                  ELSE LET t == CHOOSE x \in S : TRUE IN bag[t] + Sum(S \ {t})
    IN Sum({ t \in DOMAIN bag : t.address = address })

\* refresh tasks of an address that were started and have not completed
Outstanding(address) == OutstandingIn(tasks, address)

IsLoading(token) == "loading" \in DOMAIN token /\ token.loading = TRUE

IsNotLoading(token) == "loading" \in DOMAIN token /\ token.loading = FALSE

\* C1: a token address never has two refresh tasks outstanding at the same time,
\* also when Token.invalidate marks the token dirty while its refresh is in flight.
C1_AtMostOneOutstanding == \A k \in Keys : Outstanding(k) <= 1

\* C2: an event for a hash that was not in the transaction list before the event
\* sets no token's dirty flag.
C2_UntrackedEventInvalidatesNothing ==
    [][ (last'.op = "event" /\ ~last'.tracked)
          => \A k \in DOMAIN tokens : tokens'[k].dirty = tokens[k].dirty ]_vars

\* C3: after an event for a hash that was already in the transaction list, the record of
\* that hash holds the event's status and receipt and every token of the collection is dirty.
C3_TrackedEventInvalidatesAll ==
    (last.op = "event" /\ last.tracked)
      => /\ \A k \in DOMAIN tokens : tokens[k].dirty = TRUE
         /\ \E i \in DOMAIN transactions :
               /\ transactions[i].hash = last.address
               /\ transactions[i].status = last.status
               /\ transactions[i].txReceipt = last.txReceipt
         /\ Cardinality({ i \in DOMAIN transactions : transactions[i].hash = last.address }) = 1

C3_Witness ==
    /\ last.op = "event"
    /\ last.tracked
    /\ last.status = "confirmed"
    /\ Cardinality(DOMAIN tokens) = 3
    /\ \E i \in DOMAIN transactions :
          transactions[i].hash = last.address /\ transactions[i].status = "confirmed"

\* C4: one scheduler pass sets every entry with !(initialized && !dirty) to loading=true,
\* dirty=false, initialized=true and dispatches exactly one refresh task for it; it
\* dispatches no task for an entry with initialized=true and dirty=false and leaves that
\* entry's record unchanged.
C4_PassFlipsStaleSkipsFresh ==
    [][ last'.op = "pass"
          => /\ DOMAIN tokens' = DOMAIN tokens
             /\ \A k \in DOMAIN tokens :
                   IF ~(tokens[k].initialized /\ ~tokens[k].dirty)
                   THEN /\ IsLoading(tokens'[k])
                        /\ tokens'[k].dirty = FALSE
                        /\ tokens'[k].initialized = TRUE
                        /\ last'.started[k] = 1
                        /\ OutstandingIn(tasks', k) - OutstandingIn(tasks, k) \in {0, 1}
                        /\ (OutstandingIn(tasks', k) = OutstandingIn(tasks, k))
                              <=> (tokens[k].isZil /\ wallet.privateKey = NoKey)
                   ELSE /\ tokens'[k] = tokens[k]
                        /\ last'.started[k] = 0
                        /\ OutstandingIn(tasks', k) = OutstandingIn(tasks, k) ]_vars

C4_Witness ==
    /\ last.op = "pass"
    /\ \E k1, k2 \in DOMAIN tokens :
          /\ last.started[k1] = 1
          /\ last.started[k2] = 0
          /\ IsLoading(tokens[k1])
          /\ Outstanding(k1) = 1
          /\ Outstanding(k2) = 0

C6_NoRetryBeforeLaterInvalidate ==
    [][ last'.op = "pass" => last'.stale \cap failedSince = {} ]_vars

\* C6, amended: after a refresh task of T has failed, a refresh task of T is started only
\* when T is dirty (marked by a later Token.invalidate, or by one that arrived while the
\* failed task was in flight); T stays initialized=true; and the failure changes neither
\* the record nor the tasks of any other token.
C6_RetryOnlyWhenDirty ==
    [][ /\ (last'.op = "pass"
              => \A k \in last'.stale \cap failedSince : tokens[k].dirty = TRUE)
        /\ \A k \in failedSince' : tokens'[k].initialized = TRUE
        /\ (last'.op = "failed"
              => \A k \in DOMAIN tokens \ { last'.address } :
                    /\ tokens'[k] = tokens[k]
                    /\ OutstandingIn(tasks', k) = OutstandingIn(tasks, k)) ]_vars

C6_Witness ==
    /\ last.op = "contractDone"
    /\ failedSince # {}
    /\ last.address \notin failedSince
    /\ \A k \in failedSince : ~tokens[k].dirty /\ Outstanding(k) = 0

\* C7: a refresh of the native-currency token attempted while the wallet has no private
\* key changes nothing: the native token's record and the wallet are as before the attempt.
C7_NoKeyRefreshChangesNothing ==
    [][ (last'.op = "pass" /\ ZilKey \in last'.stale /\ wallet.privateKey = NoKey)
          => (tokens'[ZilKey] = tokens[ZilKey] /\ wallet' = wallet) ]_vars

\* C8: after the bootstrap with wallet W and known tokens L the collection holds, for every
\* descriptor of L, a record with its address, decimals and symbol, initialized=false,
\* dirty=false, isZil=false, zero balance and supply and no balances, and the native
\* record with initialized=true, balance W.balance and the one balances entry
\* lower-case(W.address) -> W.balance.
C8_BootstrapSeedsCollection ==
    last.op = "init"
      => /\ DOMAIN tokens =
               { last.zilswapTokens[i].address : i \in DOMAIN last.zilswapTokens } \cup { ZilKey }
         /\ \A i \in DOMAIN last.zilswapTokens :
               LET d == last.zilswapTokens[i]
                   r == tokens[d.address]
               IN /\ r.address = d.address
                  /\ r.decimals = d.decimals
                  /\ r.symbol = d.symbol
                  /\ r.initialized = FALSE
                  /\ r.dirty = FALSE
                  /\ r.isZil = FALSE
                  /\ r.balance = 0
                  /\ r.init_supply = 0
                  /\ DOMAIN r.balances = {}
         /\ tokens[ZilKey].isZil = TRUE
         /\ tokens[ZilKey].initialized = TRUE
         /\ tokens[ZilKey].address = ZIL_HASH
         /\ tokens[ZilKey].balance = wallet.balance
         /\ DOMAIN tokens[ZilKey].balances = { ToLowerCase(wallet.byte20) }
         /\ tokens[ZilKey].balances[ToLowerCase(wallet.byte20)] = wallet.balance
         /\ wallet.byte20 = <<"x","A">> => DOMAIN tokens[ZilKey].balances = { <<"x","a">> }

C8_Witness ==
    /\ last.op = "init"
    /\ Len(last.zilswapTokens) = 2
    /\ wallet.balance = 500
    /\ wallet.byte20 = <<"x","A">>
    /\ tokens[ZilKey].balances[<<"x","a">>] = 500

\* C9: Token.init is dispatched only when a wallet is present and the collection is not
\* initialized, and at most once: no later step, the Wallet.update of a native refresh
\* included, brings another Token.init.
C9_InitAtMostOnce ==
    /\ [](initCount <= 1)
    /\ [][ initCount' # initCount => (~tokenInitialized /\ wallet # NoWallet) ]_vars

C9_Witness ==
    /\ initCount = 1
    /\ tokenInitialized
    /\ last.op = "zilDone"

\* C10: no two entries of the token collection have the same address field.
C10_OneRecordPerAddress ==
    \A k1, k2 \in DOMAIN tokens : k1 # k2 => tokens[k1].address # tokens[k2].address

C10_Witness ==
    /\ Cardinality(DOMAIN tokens) = 3
    /\ last.op = "zilDone"
    /\ \E k \in TokenAddrs : tokens[k].initialized /\ IsNotLoading(tokens[k])

\* C11: once the collection is bootstrapped, the native pseudo-token is initialized in
\* every state: passes, native refreshes that succeed, fail or find no private key, and
\* invalidations leave it so.
C11_NativeAlwaysInitialized ==
    tokenInitialized => (ZilKey \in DOMAIN tokens /\ tokens[ZilKey].initialized = TRUE)

\* a native refresh failed after an invalidation that arrived while it was in flight
C11_Witness ==
    /\ last.op = "failed"
    /\ last.address = ZilKey
    /\ tokens[ZilKey].dirty
    /\ tokens[ZilKey].initialized

\* C12: the connector holds at most one observer, the butler's callback or none. While
\* the component is unmounted none is registered, a transaction event is handled only
\* by a registered callback, and an event that arrives while the component is unmounted
\* changes neither the transactions nor any token's dirty flag.
C12_NoCallbackAfterUnmount ==
    /\ [](observer \in BOOLEAN /\ (~mounted => ~observer))
    /\ [][ last'.op = "event" => observer ]_vars
    /\ [][ (~mounted /\ last'.op \in { "event", "dropped" })
             => /\ transactions' = transactions
                /\ DOMAIN tokens' = DOMAIN tokens
                /\ \A k \in DOMAIN tokens : tokens'[k].dirty = tokens[k].dirty ]_vars

\* an event arrived after the unmount, for a store with transactions and clean tokens
C12_Witness ==
    /\ ~mounted
    /\ last.op = "dropped"
    /\ transactions # << >>
    /\ ZilKey \in DOMAIN tokens
    /\ ~tokens[ZilKey].dirty

\* the balance-table entry whose owner equals the address when case is ignored, or zero
EntryIgnoringCase(table, address) ==
    LET owners == { a \in DOMAIN table : ToLowerCase(a) = ToLowerCase(address) }
    IN IF owners = {} THEN 0 ELSE BN(table[CHOOSE a \in owners : TRUE])

\* C13: after a successful contract refresh the token's balance is the balance-table
\* entry whose owner equals the wallet's address when case is ignored, or zero when the
\* table has no such entry, and the token is initialized, not loading and not dirty.
C13_OwnBalanceIgnoringCase ==
    last.op = "contractDone"
      => /\ tokens[last.address].balance =
              EntryIgnoringCase(last.read.table, last.read.byte20)
         /\ tokens[last.address].initialized = TRUE
         /\ tokens[last.address].loading = FALSE
         /\ tokens[last.address].dirty = FALSE

\* C14: when a contract refresh of a token completes having read the same init
\* parameters, balance table, pool and wallet address as the token's previous completed
\* refresh, it dispatches the same update as that one did, and the token's record after
\* it equals the record the previous one left.
C14_RefreshIdempotent ==
    [][ (/\ last'.op = "contractDone"
         /\ last'.address \in DOMAIN refreshed
         /\ refreshed[last'.address].read = last'.read)
          => /\ last'.tokenInfo = refreshed[last'.address].tokenInfo
             /\ tokens'[last'.address] = refreshed[last'.address].record ]_vars

\* a refresh completed that read what the token's previous refresh had read, after an
\* invalidation and a flip had changed the record in between
C14_Witness ==
    /\ last.op = "contractDone"
    /\ last.again
    /\ transactions # << >>
    /\ last.read.table # EmptyMap

\* C15: the mapping zilParamsToMap returns for a parameter sequence has exactly the
\* sequence's names as keys and maps each name to the value of the last entry with that
\* name, whatever the entries' declared types; for the empty sequence it is empty.
C15_LastEntryWins ==
    last.op = "zilParamsToMap"
      => LET params == last.params
             output == last.output
         IN /\ DOMAIN output = { params[i].vname : i \in DOMAIN params }
            /\ \A i \in DOMAIN params :
                  (\A j \in DOMAIN params : j > i => params[j].vname # params[i].vname)
                    => output[params[i].vname] = params[i].value
            /\ (params = << >> => output = EmptyMap)

\* a sequence that names a parameter twice, with two values and two types, was decoded
C15_Witness ==
    /\ last.op = "zilParamsToMap"
    /\ \E i, j \in DOMAIN last.params :
          /\ i < j
          /\ last.params[i].vname = last.params[j].vname
          /\ last.params[i].value # last.params[j].value
          /\ last.params[i].type # last.params[j].type

\* C16: the dirty flag of a token is cleared only by a step of the token effect that
\* refreshes the token, never by the completion of a refresh that was in flight when the
\* token was marked dirty.
C16_DirtyClearedOnlyByPass ==
    [][ \A k \in (DOMAIN tokens) \cap (DOMAIN tokens') :
          (tokens[k].dirty /\ ~tokens'[k].dirty)
            => (last'.op = "pass" /\ k \in last'.stale) ]_vars

\* the state INITIALIZED of a token: initialized, not dirty, not loading (the loading
\* field is false, or was never set)
Initialized(token) == token.initialized /\ ~token.dirty /\ ~IsLoading(token)

\* C17: when effects that are due run, started reads resolve, the wallet has a private
\* key and transaction events stop from some point on, then from some point on every
\* token of the collection, contract-backed or native, is INITIALIZED.
C17_EventuallyAllInitialized ==
    <>[](last.op # "event") => <>[](\A k \in DOMAIN tokens : Initialized(tokens[k]))

\* both kinds of token were refreshed after an invalidation and all tokens are INITIALIZED
C17_Witness ==
    /\ transactions # << >>
    /\ tasks = EmptyBag
    /\ \E k \in DOMAIN tokens : ~tokens[k].isZil /\ k \in DOMAIN refreshed
    /\ ZilKey \in DOMAIN tokens
    /\ IsNotLoading(tokens[ZilKey])
    /\ \A k \in DOMAIN tokens : Initialized(tokens[k])

\* C18: a refresh of the native token waits for the wallet's reconnection only, never for
\* a read of contract state, and a contract token's refresh never for the reconnection.
\* When it completes, the wallet is the fresh wallet, the native token is not loading,
\* its balance is the fresh wallet's balance and so is the entry of its balance mapping
\* for the fresh wallet's lower-cased address: the native token's balance equals the
\* wallet's.
C18_NativeRefreshFollowsWallet ==
    /\ \A t \in DOMAIN tasks : (t.token.isZil <=> t.pc = "connect")
    /\ last.op = "zilDone"
         => /\ last.address = ZilKey
            /\ wallet = last.fresh
            /\ tokens[ZilKey].isZil
            /\ tokens[ZilKey].loading = FALSE
            /\ tokens[ZilKey].balance = last.fresh.balance
            /\ ToLowerCase(last.fresh.byte20) \in DOMAIN tokens[ZilKey].balances
            /\ tokens[ZilKey].balances[ToLowerCase(last.fresh.byte20)] = last.fresh.balance
            /\ tokens[ZilKey].balance = wallet.balance

\* a native refresh completed with a balance of 0 while another task still holds the
\* wallet it captured, whose balance was 500
C18_Witness ==
    /\ last.op = "zilDone"
    /\ wallet.balance = 0
    /\ \E t \in DOMAIN tasks : t.wallet.balance = 500

\* C19: once the collection is bootstrapped, no step changes the set of its addresses:
\* flips, refresh completions, failures and invalidations neither add nor delete an
\* entry. A run of the token effect changes only the records of the tokens it refreshes,
\* and the end of a refresh of a token changes only that token's record.
C19_AddressesFixed ==
    [][ tokenInitialized
          => /\ DOMAIN tokens' = DOMAIN tokens
             /\ last'.op = "pass"
                  => \A k \in DOMAIN tokens : k \notin last'.stale => tokens'[k] = tokens[k]
             /\ last'.op \in { "zilDone", "contractDone", "failed" }
                  => \A k \in DOMAIN tokens : k # last'.address => tokens'[k] = tokens[k] ]_vars

\* a contract refresh completed in a collection of three tokens, one of them loading
C19_Witness ==
    /\ last.op = "contractDone"
    /\ Cardinality(DOMAIN tokens) = 3
    /\ \E k \in DOMAIN tokens : k # last.address /\ IsLoading(tokens[k])

\* C20: the preference reducer sets the theme item of localStorage only while it handles
\* an UPDATE action whose payload's theme is "dark" or "light" and differs from the theme
\* of the state it was handed; the value it sets is that theme. While it handles an INIT
\* action or an action of another type the item stays as it was, and for an action of
\* another type it returns the state it was handed.
C20_ThemeSavedOnlyOnValidUpdate ==
    last.op = "reducer"
      => /\ last.writes # << >>
              => /\ last.actions.type = TYPES.UPDATE
                 /\ "theme" \in DOMAIN last.actions.payload
                 /\ last.actions.payload.theme \in { "dark", "light" }
                 /\ last.actions.payload.theme # last.state.theme
                 /\ last.writes = << last.actions.payload.theme >>
                 /\ localStorage = last.actions.payload.theme
         /\ last.writes = << >> => localStorage = last.item
         /\ last.actions.type # TYPES.UPDATE => last.writes = << >>
         /\ last.actions.type \notin { TYPES.INIT, TYPES.UPDATE } => preference = last.state
         /\ \A i \in DOMAIN last.writes : last.writes[i] \in { "dark", "light" }

\* an UPDATE to "dark" was handled in a state whose theme an INIT had set to an unknown
\* theme, and "dark" was saved over a saved unknown theme
C20_Witness ==
    /\ last.op = "reducer"
    /\ last.actions.type = TYPES.UPDATE
    /\ last.state.theme = "blue"
    /\ last.item = "blue"
    /\ localStorage = "dark"
    /\ preference.theme = "dark"

====
